---------------------------- MODULE Spec2Model ----------------------------
(***************************************************************************)
(* A model of less-scanner: the Scanner (scanner.ts), the worker message   *)
(* handler (worker.ts) and the coordinator (cli.ts: merge and main).       *)
(*                                                                         *)
(* Counters are plain JavaScript objects, so the model keeps what a plain  *)
(* object does: own keys in Object.keys order, property reads that fall    *)
(* back to Object.prototype, and the + operator on numbers and strings.    *)
(***************************************************************************)
EXTENDS Integers, Sequences, FiniteSets, TLC

VARIABLES
    count,      \* main: number of workers started
    args,       \* main: process.argv.slice(2)
    pc,         \* main: position in main()
    argi,       \* main: index of the argument the for-of loop is at
    namei,      \* main: index of the directory entry the inner loop is at
    idx,        \* main: round-robin task index
    total,      \* main: scans completed
    counters,   \* main: the aggregate Counters
    promises,   \* main: one promise per worker
    results,    \* main: the value of await Promise.all(promises)
    li,         \* main: index of the loop main() is in after dispatch
    written,    \* main: the files written so far, each with its content
    log,        \* main: console.log lines
    sent,       \* main: every scan message posted, in order, with its worker
    inbox,      \* per worker: messages main -> worker, in order
    outbox,     \* per worker: messages worker -> main, in order
    errors,     \* the workers whose 'error' event main has yet to handle
    wcounters,  \* per worker: the worker's Counters
    wstate,     \* per worker: "running", "crashed" or "exited"
    handled,    \* per worker: the scan messages it has handled, in order
    wtrace,     \* per worker: the kinds of the messages it has handled, in order
    pstore,     \* partition scan: each scanner's Counters
    pshare,     \* partition scan: the files each scanner has scanned
    sstore,     \* partition scan: Counters of one scanner scanning every file
    sfiles,     \* partition scan: the files scanned so far, in order
    pagg,       \* partition scan: the aggregate merged so far
    porder,     \* partition scan: the scanners merged so far, in order
    scounters,  \* one Scanner: its Counters
    sbefore,    \* one Scanner: its Counters before the last call
    shistory,   \* one Scanner: the calls made so far, in order
    dimOrder,   \* one Scanner: the keys of dimensions, in order of insertion
    sorted      \* one Scanner: what the last sortKeys(dimensions) returned

mainVars == <<count, args, pc, argi, namei, idx, total, counters, promises,
              results, li, written, log, sent>>
workerVars == <<inbox, outbox, errors, wcounters, wstate, handled, wtrace>>
partVars == <<pstore, pshare, sstore, sfiles, pagg, porder>>
scanVars == <<scounters, sbefore, shistory, dimOrder, sorted>>
vars == <<mainVars, workerVars, partVars, scanVars>>

----------------------------------------------------------------------------
(* Bounds of the model.                                                    *)

MaxWorkers == 2     \* os.cpus().length ranges over 1..MaxWorkers
MaxArgs == 2        \* at most this many command-line arguments
MaxFiles == 3       \* partition scan: at most this many files scanned
MaxScanners == 3    \* partition scan: number of scanners
MaxIndex == 12      \* integer-like keys "0".."MaxIndex" are array indices
MaxCalls == 3       \* one Scanner: at most this many calls

----------------------------------------------------------------------------
(* JavaScript values held in a Counter or read from one.                   *)

Undefined == [t |-> "undefined", n |-> 0, s |-> ""]
Number(n) == [t |-> "number", n |-> n, s |-> ""]
String(s) == [t |-> "string", n |-> 0, s |-> s]
Function(src) == [t |-> "function", n |-> 0, s |-> src]
Object(src) == [t |-> "object", n |-> 0, s |-> src]

\* ToBoolean
Truthy(v) ==
    CASE v.t = "undefined" -> FALSE
      [] v.t = "number" -> v.n # 0
      [] v.t = "string" -> v.s # ""
      [] OTHER -> TRUE

\* a || b
Or(a, b) == IF Truthy(a) THEN a ELSE b

\* ToString of a primitive, or of an object's primitive value
ToStr(v) ==
    CASE v.t = "number" -> ToString(v.n)
      [] v.t = "undefined" -> "undefined"
      [] OTHER -> v.s

\* a + b: numeric addition of two numbers, else string concatenation
Plus(a, b) ==
    IF a.t = "number" /\ b.t = "number"
    THEN Number(a.n + b.n)
    ELSE String(ToStr(a) \o ToStr(b))

\* Statements run one after another: what a statement leaves behind is a
\* value, computed in full, before the next statement reads it.
Computed(v) == v = v

\* What every object literal {} inherits: the properties of Object.prototype
\* that a key can name, each with the text its value converts to.
ObjectPrototype ==
    [ constructor |-> Function("function Object() { [native code] }"),
      toString |-> Function("function toString() { [native code] }"),
      valueOf |-> Function("function valueOf() { [native code] }"),
      __proto__ |-> Object("[object Object]") ]

----------------------------------------------------------------------------
(* A Counter ({ [x: string]: number }) is the sequence of its own          *)
(* properties in the order Object.keys lists them: array-index keys in     *)
(* ascending numeric order first, then the other keys in insertion order.  *)

IsIndex(k) == \E n \in 0..MaxIndex : ToString(n) = k
IndexOf(k) == CHOOSE n \in 0..MaxIndex : ToString(n) = k

HasOwn(c, k) == \E i \in DOMAIN c : c[i].key = k
OwnPos(c, k) == CHOOSE i \in DOMAIN c : c[i].key = k
ObjectKeys(c) == [i \in DOMAIN c |-> c[i].key]
KeySet(c) == {c[i].key : i \in DOMAIN c}

\* c[k]
GetProp(c, k) ==
    IF HasOwn(c, k) THEN c[OwnPos(c, k)].val
    ELSE IF k \in DOMAIN ObjectPrototype THEN ObjectPrototype[k]
    ELSE Undefined

\* position at which a new own key k enters the Object.keys order
InsertPos(c, k) ==
    IF IsIndex(k)
    THEN 1 + Cardinality({i \in DOMAIN c :
                            IsIndex(c[i].key) /\ IndexOf(c[i].key) < IndexOf(k)})
    ELSE Len(c) + 1

\* c[k] = v
SetProp(c, k, v) ==
    IF HasOwn(c, k) THEN [c EXCEPT ![OwnPos(c, k)].val = v]
    ELSE IF k = "__proto__" THEN c   \* the inherited setter ignores a primitive
    ELSE LET p == InsertPos(c, k)
         IN  SubSeq(c, 1, p - 1) \o <<[key |-> k, val |-> v]>> \o SubSeq(c, p, Len(c))

SectionNames ==
    <<"colors", "color_keywords", "dimensions", "directives", "elements",
      "functions", "keywords", "properties", "ratio", "variables", "syntax">>

makeCounters ==
    [ colors |-> <<>>, color_keywords |-> <<>>, dimensions |-> <<>>,
      directives |-> <<>>, elements |-> <<>>, functions |-> <<>>,
      keywords |-> <<>>, properties |-> <<>>, ratio |-> <<>>,
      variables |-> <<>>, syntax |-> <<>> ]

\* Scanner.incr
incr(c, s) ==
    LET n == Or(GetProp(c, s), Number(0))
    IN  SetProp(c, s, Plus(n, Number(1)))

RECURSIVE mergeKeys(_, _, _, _)
mergeKeys(d, s, keys, i) ==
    IF Computed(d) /\ i <= Len(keys)
    THEN LET key == keys[i]
         IN  mergeKeys(SetProp(d, key, Plus(Or(GetProp(d, key), Number(0)),
                                            GetProp(s, key))),
                       s, keys, i + 1)
    ELSE d

\* merge(dst, src) of cli.ts; the result is dst after the call
merge(dst, src) ==
    [section \in DOMAIN dst |->
        mergeKeys(dst[section], src[section], ObjectKeys(src[section]), 1)]

----------------------------------------------------------------------------
(* The Scanner's counting helpers: each increments one key of one section. *)

color(cs, s) == [cs EXCEPT !.colors = incr(@, s)]
dir(cs, s) == [cs EXCEPT !.directives = incr(@, s)]
dim(cs, s) == [cs EXCEPT !.dimensions = incr(@, s)]
elem(cs, s) == [cs EXCEPT !.elements = incr(@, s)]
func(cs, s) == [cs EXCEPT !.functions = incr(@, s)]
kwd(cs, s) == [cs EXCEPT !.keywords = incr(@, s)]
prop(cs, s) == [cs EXCEPT !.properties = incr(@, s)]
ratio(cs, s) == [cs EXCEPT !.ratio = incr(@, s)]
varsIncr(cs, s) == [cs EXCEPT !.variables = incr(@, s)]
instr(cs, s) == [cs EXCEPT !.syntax = incr(@, s)]

----------------------------------------------------------------------------
(* Syntax tree nodes, as the Scanner reads them: a discriminant (type),    *)
(* for colors and elements the class instanceof tests, and the fields the  *)
(* Scanner's accessors reach.  An absent node is undefinedNode.            *)

undefinedNode == [type |-> "undefined"]
IsPresent(n) == n.type # "undefined"
HasField(n, f) == f \in DOMAIN n

\* the syntax key of an Operation's operator; "" when the switch has no case
operationKey(op) ==
    CASE op = "ADD" -> "operation_add"
      [] op = "SUBTRACT" -> "operation_subtract"
      [] op = "MULTIPLY" -> "operation_multiply"
      [] op = "DIVIDE" -> "operation_divide"
      [] op = "AND" -> "operation_and"
      [] op = "OR" -> "operation_or"
      [] op = "EQUAL" -> "operation_eq"
      [] op = "NOT_EQUAL" -> "operation_ne"
      [] op = "GREATER_THAN" -> "operation_gt"
      [] op = "GREATER_THAN_OR_EQUAL" -> "operation_gte"
      [] op = "LESS_THAN" -> "operation_lt"
      [] op = "LESS_THAN_OR_EQUAL" -> "operation_lte"
      [] OTHER -> ""

\* the key without the unit: d.value alone
dimensionKeyNoUnit(d) == ToString(d.value)

\* d.value + (d.unit ? d.unit : ""), the key of a Dimension
dimensionKey(d) ==
    Plus(Number(d.value), IF Truthy(d.unit) THEN d.unit ELSE String("")).s

RECURSIVE scanNode(_, _)
RECURSIVE scanNodes(_, _, _)
RECURSIVE scanRules(_, _)
RECURSIVE scanRulesFrom(_, _, _)
RECURSIVE scanRulesStop(_, _, _)

\* for (const v of list) this.scanNode(v)
scanNodes(cs, list, i) ==
    IF Computed(cs) /\ i <= Len(list)
    THEN scanNodes(scanNode(cs, list[i]), list, i + 1)
    ELSE cs

\* case NodeType.EXPRESSION, which case NodeType.ELEMENT falls through to
expressionCase(cs, n) ==
    LET c == instr(cs, "expression")
    IN  IF HasField(n, "values") THEN scanNodes(c, n.values, 1) ELSE c

\* case NodeType.ELEMENT: three instanceof tests, none of them exclusive,
\* and no break before case NodeType.EXPRESSION
elementCase(cs, n) ==
    LET c1 == IF n.class = "AttributeElement"
              THEN scanNodes(instr(cs, "attribute_element"), n.parts, 1)
              ELSE cs
        c2 == IF n.class = "ValueElement"
              THEN scanNode(instr(c1, "value_element"), n.value)
              ELSE c1
        c3 == IF n.class = "TextElement"
              THEN elem(instr(c2, "text_element"), n.name)
              ELSE c2
    IN  expressionCase(c3, n)

\* a COLOR case that counts a named color under color_keywords
colorCaseNamed(cs, n) ==
    IF n.class = "KeywordColor"
    THEN [instr(cs, "keyword_color") EXCEPT !.color_keywords = incr(@, n.keyword)]
    ELSE IF n.class = "RGBColor" THEN color(instr(cs, "rgb_color"), n.repr)
    ELSE cs

\* case NodeType.COLOR
colorCase(cs, n) ==
    IF n.class = "KeywordColor" THEN kwd(instr(cs, "keyword_color"), n.keyword)
    ELSE IF n.class = "RGBColor" THEN color(instr(cs, "rgb_color"), n.repr)
    ELSE cs

\* case NodeType.OPERATION
operationCase(cs, n) ==
    LET k == operationKey(n.operator)
        c == IF k = "" THEN cs ELSE instr(cs, k)
    IN  scanNode(scanNode(c, n.left), n.right)

\* Scanner.scanNode
scanNode(cs, n) ==
    IF ~IsPresent(n) THEN cs
    ELSE CASE n.type = "ARGUMENT" -> scanNode(instr(cs, "argument"), n.value)
           [] n.type = "ASSIGNMENT" -> scanNode(instr(cs, "assignment"), n.value)
           [] n.type = "COLOR" -> colorCase(cs, n)
           [] n.type = "CONDITION" ->
                scanNode(scanNode(instr(cs, "condition"), n.left), n.right)
           [] n.type = "DEFINITION" -> scanNode(instr(cs, "definition"), n.value)
           [] n.type = "DIMENSION" ->
                dim(instr(cs, IF Truthy(n.unit) THEN "dimension" ELSE "number"),
                    dimensionKey(n))
           [] n.type = "DIRECTIVE" -> scanNode(instr(cs, "directive"), n.value)
           [] n.type = "ELEMENT" -> elementCase(cs, n)
           [] n.type = "EXPRESSION" -> expressionCase(cs, n)
           [] n.type = "EXPRESSION_LIST" ->
                scanNodes(instr(cs, "expression_list"), n.values, 1)
           [] n.type = "FALSE" -> kwd(instr(cs, "keyword"), n.value)
           [] n.type = "FEATURE" ->
                scanNode(prop(instr(cs, "feature"), n.property.name), n.value)
           [] n.type = "FEATURES" -> scanNodes(instr(cs, "features"), n.features, 1)
           [] n.type = "FUNCTION_CALL" ->
                scanNodes(func(instr(cs, "function_call"), n.name), n.args, 1)
           [] n.type = "GUARD" -> scanNodes(instr(cs, "guard"), n.conditions, 1)
           [] n.type = "IMPORT" ->
                LET c == instr(cs, "import")
                IN  scanNode(IF IsPresent(n.features) THEN scanNode(c, n.features)
                             ELSE c,
                             n.path)
           [] n.type = "KEYWORD" -> kwd(instr(cs, "keyword"), n.value)
           [] n.type = "MIXIN_ARGS" -> scanNodes(instr(cs, "mixin_args"), n.args, 1)
           [] n.type = "MIXIN_CALL" ->
                scanNode(scanNode(instr(cs, "mixin_call"), n.args), n.selector)
           [] n.type = "MIXIN_PARAMS" ->
                scanNodes(instr(cs, "mixin_params"), n.params, 1)
           [] n.type = "OPERATION" -> operationCase(cs, n)
           [] n.type = "PARAMETER" ->
                LET c == instr(cs, "parameter")
                IN  IF IsPresent(n.value) THEN scanNode(c, n.value) ELSE c
           [] n.type = "PAREN" -> scanNode(instr(cs, "paren"), n.value)
           [] n.type = "PROPERTY" -> prop(instr(cs, "property"), n.name)
           [] n.type = "QUOTED" -> instr(cs, "quoted")
           [] n.type = "RATIO" -> ratio(instr(cs, "ratio"), n.value)
           [] n.type = "RULE" ->
                scanNode(scanNode(instr(cs, "rule"), n.property), n.value)
           [] n.type = "SELECTOR" -> scanNodes(instr(cs, "selector"), n.elements, 1)
           [] n.type = "SELECTORS" ->
                scanNodes(instr(cs, "selectors"), n.selectors, 1)
           [] n.type = "SHORTHAND" ->
                scanNode(scanNode(instr(cs, "shorthand"), n.left), n.right)
           [] n.type = "TRUE" -> kwd(instr(cs, "keyword"), n.value)
           [] n.type = "UNICODE_RANGE" -> instr(cs, "unicode_range")
           [] n.type = "URL" -> instr(cs, "url")
           [] n.type = "VARIABLE" -> varsIncr(instr(cs, "variable"), n.name)
           [] OTHER -> cs

\* a switch whose MIXIN_CALL and RULE cases only delegate to scanNode, with
\* no count of their own after it
scanRuleUntagged(cs, n) ==
    CASE n.type \in {"MIXIN_CALL", "RULE"} -> scanNode(cs, n)
      [] n.type = "BLOCK_DIRECTIVE" ->
           scanRules(dir(instr(cs, "block_directive"), n.name), n.block)
      [] n.type = "GENERIC_BLOCK" -> scanRules(instr(cs, "generic_block"), n.block)
      [] n.type = "MEDIA" ->
           LET c == instr(cs, "media")
           IN  scanRules(IF IsPresent(n.features) THEN scanNode(c, n.features)
                         ELSE c,
                         n.block)
      [] n.type = "MIXIN" ->
           scanRules(scanNode(scanNode(instr(cs, "mixin"), n.guard), n.params),
                     n.block)
      [] n.type = "RULESET" ->
           scanRules(scanNode(instr(cs, "ruleset"), n.selectors), n.block)
      [] OTHER -> cs

\* the switch of Scanner.scanRules on one present entry of block.rules
scanRule(cs, n) ==
    CASE n.type = "MIXIN_CALL" -> instr(scanNode(cs, n), "mixin_call")
      [] n.type = "RULE" -> instr(scanNode(cs, n), "rule")
      [] n.type = "BLOCK_DIRECTIVE" ->
           scanRules(dir(instr(cs, "block_directive"), n.name), n.block)
      [] n.type = "GENERIC_BLOCK" -> scanRules(instr(cs, "generic_block"), n.block)
      [] n.type = "MEDIA" ->
           LET c == instr(cs, "media")
           IN  scanRules(IF IsPresent(n.features) THEN scanNode(c, n.features)
                         ELSE c,
                         n.block)
      [] n.type = "MIXIN" ->
           scanRules(scanNode(scanNode(instr(cs, "mixin"), n.guard), n.params),
                     n.block)
      [] n.type = "RULESET" ->
           scanRules(scanNode(instr(cs, "ruleset"), n.selectors), n.block)
      [] OTHER -> cs

\* a loop that ends at the first absent entry: break where the code has
\* continue
scanRulesStop(cs, rules, i) ==
    IF Computed(cs) /\ i <= Len(rules) /\ IsPresent(rules[i])
    THEN scanRulesStop(scanRule(cs, rules[i]), rules, i + 1)
    ELSE cs

\* for (let i = 0; i < rules.length; i++): an absent entry is passed over
scanRulesFrom(cs, rules, i) ==
    IF Computed(cs) /\ i <= Len(rules)
    THEN scanRulesFrom(IF IsPresent(rules[i]) THEN scanRule(cs, rules[i]) ELSE cs,
                       rules, i + 1)
    ELSE cs

\* Scanner.scanRules
scanRules(cs, block) == scanRulesFrom(cs, block.rules, 1)

----------------------------------------------------------------------------
(* Node constructors for the trees the parser hands to the Scanner.        *)

Stylesheet(rules) == [type |-> "STYLESHEET", block |-> [rules |-> rules]]
Ruleset(selectors, rules) ==
    [type |-> "RULESET", selectors |-> selectors, block |-> [rules |-> rules]]
Mixin(guard, params, rules) ==
    [type |-> "MIXIN", guard |-> guard, params |-> params,
     block |-> [rules |-> rules]]
Rule(property, value) == [type |-> "RULE", property |-> property, value |-> value]
Property(name) == [type |-> "PROPERTY", name |-> name]
Selectors(selectors) == [type |-> "SELECTORS", selectors |-> selectors]
Selector(elements) == [type |-> "SELECTOR", elements |-> elements]
TextElement(name) == [type |-> "ELEMENT", class |-> "TextElement", name |-> name]
ValueElement(value) ==
    [type |-> "ELEMENT", class |-> "ValueElement", value |-> value]
KeywordColor(keyword) ==
    [type |-> "COLOR", class |-> "KeywordColor", keyword |-> keyword]
\* repr is the text c.repr(b) writes to the buffer
RGBColor(repr) == [type |-> "COLOR", class |-> "RGBColor", repr |-> repr]
Keyword(value) == [type |-> "KEYWORD", value |-> value]
Dimension(value, unit) == [type |-> "DIMENSION", value |-> value, unit |-> unit]
Variable(name) == [type |-> "VARIABLE", name |-> name]
Operation(operator, left, right) ==
    [type |-> "OPERATION", operator |-> operator, left |-> left, right |-> right]
Condition(operator, left, right) ==
    [type |-> "CONDITION", operator |-> operator, left |-> left, right |-> right]
Guard(conditions) == [type |-> "GUARD", conditions |-> conditions]
MixinParams(params) == [type |-> "MIXIN_PARAMS", params |-> params]
MixinCall(mixinArgs, selector) ==
    [type |-> "MIXIN_CALL", args |-> mixinArgs, selector |-> selector]
\* a node of a type neither scanRules nor scanNode has a case for
Comment(body) == [type |-> "COMMENT", body |-> body]
Block(rules) == [rules |-> rules]

----------------------------------------------------------------------------
(* The files of the model's file system and what the parser makes of them. *)

\* .a { color: red; width: 10px }
StyleA ==
    Stylesheet(<<
        Ruleset(Selectors(<<Selector(<<TextElement(".a")>>)>>),
                << Rule(Property("color"), KeywordColor("red")),
                   Rule(Property("width"), Dimension(10, String("px"))) >>) >>)

\* .m() when (@a + @b > 10) { content: constructor; order: 10 }
StyleB ==
    Stylesheet(<<
        Mixin(Guard(<<Condition("GREATER_THAN",
                                Operation("ADD", Variable("a"), Variable("b")),
                                Dimension(10, Undefined))>>),
              MixinParams(<<>>),
              << Rule(Property("content"), Keyword("constructor")),
                 Rule(Property("order"), Dimension(10, Undefined)) >>) >>)

File(parse, tree) == [kind |-> "file", parse |-> parse, tree |-> tree]
Directory(names) == [kind |-> "directory", names |-> names]

\* path -> what is there; a path outside the domain does not exist
FileSystem ==
    [ p \in {"a.less", "lib", "lib/a.less", "lib/b.less", "site", "site/bad.less",
             "site/b.less", "site/null.less", "mixed", "mixed/a.less",
             "mixed/sub", "empty"} |->
        CASE p \in {"a.less", "lib/a.less", "mixed/a.less"} -> File("tree", StyleA)
          [] p \in {"lib/b.less", "site/b.less"} -> File("tree", StyleB)
          [] p = "site/bad.less" -> File("throws", undefinedNode)
          [] p = "site/null.less" -> File("undefined", undefinedNode)
          [] p = "lib" -> Directory(<<"a.less", "b.less">>)
          [] p = "site" -> Directory(<<"bad.less", "b.less", "null.less">>)
          [] p = "mixed" -> Directory(<<"a.less", "sub">>)
          [] p \in {"mixed/sub", "empty"} -> Directory(<<>>) ]

\* the paths a command-line argument may name
ArgPaths == {"a.less", "missing", "lib", "site", "mixed", "empty"}

existsSync(p) == p \in DOMAIN FileSystem
\* fs.statSync(p): the Stats object, which postMessage clones to a plain object
statSync(p) == Object("[object Object]")
isFile(p) == FileSystem[p].kind = "file"
isDirectory(p) == FileSystem[p].kind = "directory"
readdirSync(p) == FileSystem[p].names
\* filepath.join(arg, name)
join(arg, name) == arg \o "/" \o name

\* load(path): fs.readFileSync throws unless path is a string naming a file
loadThrows(path) ==
    \/ path.t # "string"
    \/ ~existsSync(path.s)
    \/ ~isFile(path.s)

\* scan without the try around compiler.parse: a syntax error is thrown on
scanNoCatch(cs, path) ==
    IF loadThrows(path) \/ FileSystem[path.s].parse = "throws"
    THEN [threw |-> TRUE, res |-> Undefined, counters |-> cs]
    ELSE LET f == FileSystem[path.s]
         IN  IF f.parse = "undefined"
             THEN [threw |-> FALSE, counters |-> cs,
                   res |-> String("failed to parse " \o path.s)]
             ELSE [threw |-> FALSE, res |-> Undefined,
                   counters |-> scanRules(cs, f.tree.block)]

\* Scanner.scan(path) on Counters cs: whether it threw, what it returned,
\* and the Counters afterwards
scan(cs, path) ==
    IF loadThrows(path)
    THEN [threw |-> TRUE, res |-> Undefined, counters |-> cs]
    ELSE LET f == FileSystem[path.s]
         IN  IF f.parse = "throws"
             THEN [threw |-> FALSE, counters |-> cs,
                   res |-> String("failed to parse " \o path.s \o ": SyntaxError")]
             ELSE IF f.parse = "undefined"
             THEN [threw |-> FALSE, counters |-> cs,
                   res |-> String("failed to parse " \o path.s)]
             ELSE [threw |-> FALSE, res |-> Undefined,
                   counters |-> scanRules(cs, f.tree.block)]

----------------------------------------------------------------------------
(* sortKeys.                                                               *)

\* the comparator (a, b) => (c[a] < c[b] ? 1 : c[a] == c[b] ? 0 : -1) on two
\* numbers
compare(x, y) == IF x.n < y.n THEN 1 ELSE IF x.n = y.n THEN 0 ELSE -1

\* Array.prototype.sort is stable: an entry goes after every entry already
\* placed that does not compare greater than it
RECURSIVE insertSorted(_, _, _)
insertSorted(r, e, j) ==
    IF j > Len(r) \/ compare(r[j].val, e.val) > 0
    THEN SubSeq(r, 1, j - 1) \o <<e>> \o SubSeq(r, j, Len(r))
    ELSE insertSorted(r, e, j + 1)

RECURSIVE stableSort(_, _, _)
stableSort(c, r, j) ==
    IF Computed(r) /\ j <= Len(c)
    THEN stableSort(c, insertSorted(r, c[j], 1), j + 1)
    ELSE r

\* The arrays sortKeys(c) can return.  With number counts the comparator is
\* consistent and the result is the stable descending sort of Object.keys(c).
\* A count that is not a number makes the comparator inconsistent, and the
\* order is then whatever the engine's sort produces: any permutation.
sortKeys(c) ==
    IF \A j \in DOMAIN c : c[j].val.t = "number"
    THEN {stableSort(c, <<>>, 1)}
    ELSE {[j \in DOMAIN c |-> c[f[j]]] : f \in Permutations(DOMAIN c)}

----------------------------------------------------------------------------
(* main() of cli.ts and the message handler of worker.ts.                  *)

step == 100         \* report progress every N scans
verbose == FALSE

Workers == 1..count
\* idx incremented before it is used: workers[(idx + 1) % count]
targetNext == ((idx + 1) % count) + 1

\* workers[idx % count], with workers numbered from 1
target == (idx % count) + 1

scanMessage(path) == [kind |-> "scan", path |-> path]

\* the report loop posting the message of the exit loop
reportAsExit == [kind |-> "exit"]

reportMessage == [kind |-> "report"]

\* the exit loop posting the message of the report loop
exitAsReport == [kind |-> "report"]

exitMessage == [kind |-> "exit"]

\* a channel that delivers the newest message first
postMessageFront(w, m) == inbox' = [inbox EXCEPT ![w] = <<m>> \o @]

postMessage(w, m) == inbox' = [inbox EXCEPT ![w] = Append(@, m)]

\* a break of the argument loop where the code has continue
afterArgBreak(a) == "report"

\* where main() stands once the argument at position a is done with
afterArg(a) == IF a >= Len(args) THEN "report" ELSE "args"

Init ==
    /\ count \in 1..MaxWorkers
    /\ args \in UNION {[1..n -> ArgPaths] : n \in 0..MaxArgs}
    /\ pc = IF Len(args) = 0 THEN "report" ELSE "args"
    /\ argi = 1
    /\ namei = 0
    /\ idx = 0
    /\ total = 0
    /\ counters = makeCounters
    /\ promises = [w \in Workers |-> [state |-> "pending", value |-> makeCounters]]
    /\ results = <<>>
    /\ li = 0
    /\ written = <<>>
    /\ log = <<>>
    /\ sent = <<>>
    /\ inbox = [w \in Workers |-> <<>>]
    /\ outbox = [w \in Workers |-> <<>>]
    /\ errors = {}
    /\ wcounters = [w \in Workers |-> makeCounters]
    /\ wstate = [w \in Workers |-> "running"]
    /\ handled = [w \in Workers |-> <<>>]
    /\ wtrace = [w \in Workers |-> <<>>]
    /\ pstore = <<>>
    /\ pshare = <<>>
    /\ sstore = makeCounters
    /\ sfiles = 0
    /\ pagg = makeCounters
    /\ porder = <<>>
    /\ scounters = makeCounters
    /\ sbefore = makeCounters
    /\ shistory = <<>>
    /\ dimOrder = <<>>
    /\ sorted = <<>>

\* One turn of `for (const arg of args)` for an argument that is not a
\* directory with entries: a skip, or the one scan message of a file.  For a
\* directory it reads the names and leaves the posting to MainEntry.
MainArg ==
    /\ pc = "args" /\ namei = 0
    /\ LET arg == args[argi]
       IN  IF ~existsSync(arg)
           THEN /\ log' = Append(log, [level |-> "warning", text |-> arg])
                /\ argi' = argi + 1 /\ pc' = afterArg(argi)
                /\ UNCHANGED <<idx, namei, inbox, sent>>
           ELSE IF isFile(arg)
           THEN /\ postMessage(target, scanMessage(statSync(arg)))
                /\ sent' = Append(sent, [worker |-> target, file |-> arg,
                                         path |-> statSync(arg)])
                /\ idx' = idx + 1
                /\ argi' = argi + 1 /\ pc' = afterArg(argi)
                /\ UNCHANGED <<log, namei>>
           ELSE IF isDirectory(arg)
           THEN /\ log' = Append(log, [level |-> "info", text |-> arg])
                /\ IF Len(readdirSync(arg)) = 0
                   THEN argi' = argi + 1 /\ pc' = afterArg(argi) /\ namei' = 0
                   ELSE namei' = 1 /\ UNCHANGED <<argi, pc>>
                /\ UNCHANGED <<idx, inbox, sent>>
           ELSE /\ argi' = argi + 1 /\ pc' = afterArg(argi)
                /\ UNCHANGED <<idx, namei, inbox, sent, log>>
    /\ UNCHANGED <<count, args, total, counters, promises, results, li, written>>
    /\ UNCHANGED <<outbox, errors, wcounters, wstate, handled, wtrace>>
    /\ UNCHANGED <<partVars, scanVars>>

\* One turn of `for (const name of names)`.
MainEntry ==
    /\ pc = "args" /\ namei > 0
    /\ LET arg == args[argi]
           names == readdirSync(arg)
           path == String(join(arg, names[namei]))
       IN  /\ postMessage(target, scanMessage(path))
           /\ sent' = Append(sent, [worker |-> target,
                                    file |-> join(arg, names[namei]),
                                    path |-> path])
           /\ idx' = idx + 1
           /\ IF namei = Len(names)
              THEN argi' = argi + 1 /\ pc' = afterArg(argi) /\ namei' = 0
              ELSE namei' = namei + 1 /\ UNCHANGED <<argi, pc>>
    /\ UNCHANGED <<count, args, total, counters, promises, results, li, written, log>>
    /\ UNCHANGED <<outbox, errors, wcounters, wstate, handled, wtrace>>
    /\ UNCHANGED <<partVars, scanVars>>

\* One turn of the loop that posts { kind: 'report' } to every worker; after
\* the last one main() reaches `await Promise.all(promises)`.
MainReport ==
    /\ pc = "report"
    /\ postMessage(li + 1, reportMessage)
    /\ li' = IF li + 1 = count THEN 0 ELSE li + 1
    /\ pc' = IF li + 1 = count THEN "await" ELSE "report"
    /\ UNCHANGED <<count, args, argi, namei, idx, total, counters, promises,
                   results, written, log, sent>>
    /\ UNCHANGED <<outbox, errors, wcounters, wstate, handled, wtrace>>
    /\ UNCHANGED <<partVars, scanVars>>

\* Promise.race in place of Promise.all: one report is enough
someResolved == \E w \in Workers : promises[w].state = "resolved"

allResolved == \A w \in Workers : promises[w].state = "resolved"
anyRejected == \E w \in Workers : promises[w].state = "rejected"

\* main() handles worker events only while it is suspended in the await with
\* Promise.all still undecided, or after it has returned or thrown
eventLoop ==
    IF pc = "await" THEN ~allResolved /\ ~anyRejected
    ELSE pc \in {"done", "aborted"}

\* an 'error' handler that settles the promise as if the worker had reported
rejectSwallowed(p) ==
    IF p.state = "pending" THEN [p EXCEPT !.state = "resolved"] ELSE p

\* a 'message' handler that never resolves the promise
resolveDropped(p, value) == p

\* resolve(value) and reject(e): a settled promise stays as it is
resolve(p, value) ==
    IF p.state = "pending" THEN [state |-> "resolved", value |-> value] ELSE p
reject(p) ==
    IF p.state = "pending" THEN [p EXCEPT !.state = "rejected"] ELSE p

\* the console.log lines of one 'scan' notice
scanLog(m, n) ==
    (IF verbose THEN <<[level |-> "worker", text |-> ToStr(m.path)]>> ELSE <<>>)
    \o (IF n % step = 0 THEN <<[level |-> "processed", text |-> ToString(n)]>>
        ELSE <<>>)

\* w.on('message', ...)
MainOnMessage(w) ==
    /\ eventLoop
    /\ outbox[w] # <<>>
    /\ LET m == Head(outbox[w])
       IN  IF m.kind = "scan"
           THEN /\ total' = total + 1
                /\ log' = log \o scanLog(m, total + 1)
                /\ UNCHANGED promises
           ELSE IF m.kind = "report"
           THEN /\ promises' = [promises EXCEPT ![w] = resolve(@, m.counters)]
                /\ UNCHANGED <<total, log>>
           ELSE UNCHANGED <<total, log, promises>>
    /\ outbox' = [outbox EXCEPT ![w] = Tail(@)]
    /\ UNCHANGED <<count, args, pc, argi, namei, idx, counters, results, li,
                   written, sent>>
    /\ UNCHANGED <<inbox, errors, wcounters, wstate, handled, wtrace>>
    /\ UNCHANGED <<partVars, scanVars>>

\* w.on('error', ...)
MainOnError(w) ==
    /\ eventLoop
    /\ w \in errors
    /\ promises' = [promises EXCEPT ![w] = reject(@)]
    /\ errors' = errors \ {w}
    /\ UNCHANGED <<count, args, pc, argi, namei, idx, total, counters, results,
                   li, written, log, sent>>
    /\ UNCHANGED <<inbox, outbox, wcounters, wstate, handled, wtrace>>
    /\ UNCHANGED <<partVars, scanVars>>

\* await Promise.all(promises) yields the values, in the order of the workers
MainJoin ==
    /\ pc = "await"
    /\ allResolved
    /\ results' = [w \in Workers |-> promises[w].value]
    /\ pc' = "merge"
    /\ li' = 0
    /\ UNCHANGED <<count, args, argi, namei, idx, total, counters, promises,
                   written, log, sent>>
    /\ UNCHANGED workerVars
    /\ UNCHANGED <<partVars, scanVars>>

\* await Promise.all(promises) throws: main() ends with nothing written
MainAbort ==
    /\ pc = "await"
    /\ anyRejected
    /\ pc' = "aborted"
    /\ UNCHANGED <<count, args, argi, namei, idx, total, counters, promises,
                   results, li, written, log, sent>>
    /\ UNCHANGED workerVars
    /\ UNCHANGED <<partVars, scanVars>>

\* One turn of `for (const c of results) merge(counters, c)`.
MainMerge ==
    /\ pc = "merge"
    /\ counters' = merge(counters, results[li + 1])
    /\ li' = IF li + 1 = Len(results) THEN 0 ELSE li + 1
    /\ pc' = IF li + 1 = Len(results) THEN "write" ELSE "merge"
    /\ UNCHANGED <<count, args, argi, namei, idx, total, promises, results,
                   written, log, sent>>
    /\ UNCHANGED workerVars
    /\ UNCHANGED <<partVars, scanVars>>

\* One turn of the loop that writes <section>.json.
MainWrite ==
    /\ pc = "write"
    /\ LET key == SectionNames[li + 1]
       IN  \E data \in sortKeys(counters[key]) :
              written' = Append(written, [file |-> key \o ".json", data |-> data])
    /\ li' = IF li + 1 = Len(SectionNames) THEN 0 ELSE li + 1
    /\ pc' = IF li + 1 = Len(SectionNames) THEN "exit" ELSE "write"
    /\ UNCHANGED <<count, args, argi, namei, idx, total, counters, promises,
                   results, log, sent>>
    /\ UNCHANGED workerVars
    /\ UNCHANGED <<partVars, scanVars>>

\* One turn of the loop that posts { kind: 'exit' } to every worker.
MainExit ==
    /\ pc = "exit"
    /\ postMessage(li + 1, exitMessage)
    /\ li' = IF li + 1 = count THEN 0 ELSE li + 1
    /\ pc' = IF li + 1 = count THEN "done" ELSE "exit"
    /\ UNCHANGED <<count, args, argi, namei, idx, total, counters, promises,
                   results, written, log, sent>>
    /\ UNCHANGED <<outbox, errors, wcounters, wstate, handled, wtrace>>
    /\ UNCHANGED <<partVars, scanVars>>

\* parentPort.on('message', ...) of worker.ts, on the oldest message.  An
\* exception scan() lets through is uncaught: the worker thread ends and its
\* Worker object emits 'error'.
WorkerOnMessage(w) ==
    /\ wstate[w] = "running"
    /\ inbox[w] # <<>>
    /\ LET m == Head(inbox[w])
           r == scan(wcounters[w], m.path)
       IN  IF m.kind = "scan"
           THEN /\ handled' = [handled EXCEPT ![w] = Append(@, m.path)]
                /\ IF r.threw
                   THEN /\ wstate' = [wstate EXCEPT ![w] = "crashed"]
                        /\ errors' = errors \cup {w}
                        /\ UNCHANGED <<wcounters, outbox>>
                   ELSE /\ wcounters' = [wcounters EXCEPT ![w] = r.counters]
                        /\ outbox' = [outbox EXCEPT ![w] =
                               Append(@, [kind |-> "scan", id |-> w,
                                          path |-> m.path])]
                        /\ UNCHANGED <<wstate, errors>>
           ELSE IF m.kind = "report"
           THEN /\ outbox' = [outbox EXCEPT ![w] =
                       Append(@, [kind |-> "report", counters |-> wcounters[w]])]
                /\ UNCHANGED <<wcounters, wstate, errors, handled>>
           ELSE /\ wstate' = [wstate EXCEPT ![w] = "exited"]
                /\ UNCHANGED <<wcounters, outbox, errors, handled>>
    /\ inbox' = [inbox EXCEPT ![w] = Tail(@)]
    /\ wtrace' = [wtrace EXCEPT ![w] = Append(@, Head(inbox[w]).kind)]
    /\ UNCHANGED mainVars
    /\ UNCHANGED <<partVars, scanVars>>

Next ==
    \/ MainArg
    \/ MainEntry
    \/ MainReport
    \/ \E w \in Workers : MainOnMessage(w)
    \/ \E w \in Workers : MainOnError(w)
    \/ MainJoin
    \/ MainAbort
    \/ MainMerge
    \/ MainWrite
    \/ MainExit
    \/ \E w \in Workers : WorkerOnMessage(w)

Spec == Init /\ [][Next]_vars

\* The loop control of MainMerge and of MainWrite: whether the loop can take
\* its next turn, and where main() stands after it.
MergeTurn ==
    /\ pc = "merge"
    /\ li' = IF li + 1 = Len(results) THEN 0 ELSE li + 1
    /\ pc' = IF li + 1 = Len(results) THEN "write" ELSE "merge"

WriteTurn ==
    /\ pc = "write"
    /\ li' = IF li + 1 = Len(SectionNames) THEN 0 ELSE li + 1
    /\ pc' = IF li + 1 = Len(SectionNames) THEN "exit" ELSE "write"

\* The control of WorkerOnMessage(w): a live worker with a message waiting
\* takes the oldest one off its queue.
WorkerTurn(w) ==
    /\ w \in Workers
    /\ wstate[w] = "running"
    /\ inbox[w] # <<>>
    /\ inbox' = [inbox EXCEPT ![w] = Tail(@)]

\* The steps of main() outside those two loops.
MainStep ==
    \/ MainArg
    \/ MainEntry
    \/ MainReport
    \/ MainJoin
    \/ MainAbort
    \/ MainExit

\* main() runs on as long as it can take a step: up to its await, and on from
\* it once Promise.all has settled.  Node delivers every message and every
\* event posted to a live thread, and every worker thread gets to run.
\* Fairness of the merge loop, the write loop and the workers' handlers is
\* stated on their control: only main() changes pc and li, and only worker w
\* takes a message off inbox[w], so a step that is a MergeTurn or a WriteTurn
\* in pc and li is a step of MainMerge or MainWrite, and a step that is a
\* WorkerTurn(w) in inbox is a step of WorkerOnMessage(w).
SpecFair ==
    /\ Init
    /\ [][Next]_vars
    /\ WF_vars(MainStep)
    /\ WF_<<pc, li>>(MergeTurn)
    /\ WF_<<pc, li>>(WriteTurn)
    /\ \A w \in 1..(MaxWorkers + 1) :
          /\ WF_vars(w \in Workers /\ MainOnMessage(w))
          /\ WF_vars(w \in Workers /\ MainOnError(w))
          /\ WF_inbox(WorkerTurn(w))

----------------------------------------------------------------------------
(* Partition scan: MaxScanners Scanners, each with its own Counters, share *)
(* up to MaxFiles parseable files in any way; one more Scanner scans every *)
(* file in the same order; then the shares are merged into an aggregate,   *)
(* in any order.                                                           *)

Scanners == 1..MaxScanners

\* the files of the file system that parse
ParseableFiles ==
    {p \in DOMAIN FileSystem : isFile(p) /\ FileSystem[p].parse = "tree"}

InitPart ==
    /\ count = 1
    /\ args = <<>>
    /\ pc = "idle"
    /\ argi = 1
    /\ namei = 0
    /\ idx = 0
    /\ total = 0
    /\ counters = makeCounters
    /\ promises = <<>>
    /\ results = <<>>
    /\ li = 0
    /\ written = <<>>
    /\ log = <<>>
    /\ sent = <<>>
    /\ inbox = <<>>
    /\ outbox = <<>>
    /\ errors = {}
    /\ wcounters = <<>>
    /\ wstate = <<>>
    /\ handled = <<>>
    /\ wtrace = <<>>
    /\ pstore = [s \in Scanners |-> makeCounters]
    /\ pshare = [s \in Scanners |-> 0]
    /\ sstore = makeCounters
    /\ sfiles = 0
    /\ pagg = makeCounters
    /\ porder = <<>>
    /\ scounters = makeCounters
    /\ sbefore = makeCounters
    /\ shistory = <<>>
    /\ dimOrder = <<>>
    /\ sorted = <<>>

\* new Scanner(counters).scan(f), by scanner s and by the sequential scanner
PartScan(s, f) ==
    /\ porder = <<>>
    /\ sfiles < MaxFiles
    /\ pstore' = [pstore EXCEPT ![s] = scan(@, String(f)).counters]
    /\ pshare' = [pshare EXCEPT ![s] = @ + 1]
    /\ sstore' = scan(sstore, String(f)).counters
    /\ sfiles' = sfiles + 1
    /\ UNCHANGED <<pagg, porder>>
    /\ UNCHANGED mainVars
    /\ UNCHANGED workerVars
    /\ UNCHANGED scanVars

\* merge(aggregate, counters of scanner s)
PartMerge(s) ==
    /\ \A j \in DOMAIN porder : porder[j] # s
    /\ pagg' = merge(pagg, pstore[s])
    /\ porder' = Append(porder, s)
    /\ UNCHANGED <<pstore, pshare, sstore, sfiles>>
    /\ UNCHANGED mainVars
    /\ UNCHANGED workerVars
    /\ UNCHANGED scanVars

NextPart ==
    \/ \E s \in Scanners : \E f \in ParseableFiles : PartScan(s, f)
    \/ \E s \in Scanners : PartMerge(s)

SpecPart == InitPart /\ [][NextPart]_vars

----------------------------------------------------------------------------
(* One Scanner: up to MaxCalls calls, each of scanNode on a node, of scan   *)
(* on a file, of scanRules on a block, or of sortKeys on the Scanner's     *)
(* dimensions.                                                             *)

\* (@a + @b > 10), the guard of a mixin
GuardAB ==
    Guard(<<Condition("GREATER_THAN",
                      Operation("ADD", Variable("a"), Variable("b")),
                      Dimension(10, Undefined))>>)

\* the nodes scanNode is called on
SampleNodes ==
    << Dimension(10, String("px")),
       Dimension(10, Undefined),
       Dimension(2, Undefined),
       KeywordColor("red"),
       RGBColor("#fff"),
       Operation("ADD", Variable("a"), Variable("b")),
       Condition("LESS_THAN", Variable("a"), Dimension(2, Undefined)),
       GuardAB,
       TextElement(".a"),
       ValueElement(Variable("a")),
       Comment("note"),
       undefinedNode >>

\* the blocks scanRules is called on: one with nothing scanRules has a case
\* for, one with such entries among a declaration and a mixin call, and one
\* with two declarations and a mixin call
SampleBlocks ==
    << Block(<<undefinedNode, Comment("note")>>),
       Block(<< undefinedNode,
                Rule(Property("color"), KeywordColor("red")),
                Comment("note"),
                MixinCall(undefinedNode, Selector(<<TextElement(".m")>>)),
                undefinedNode >>),
       Block(<< Rule(Property("width"), Dimension(10, String("px"))),
                Rule(Property("color"), KeywordColor("red")),
                MixinCall(undefinedNode, Selector(<<TextElement(".m")>>)) >>) >>

\* the files scan is called on: those load can read
ReadableFiles == {p \in DOMAIN FileSystem : isFile(p)}

InitScan ==
    /\ count = 1
    /\ args = <<>>
    /\ pc = "idle"
    /\ argi = 1
    /\ namei = 0
    /\ idx = 0
    /\ total = 0
    /\ counters = makeCounters
    /\ promises = <<>>
    /\ results = <<>>
    /\ li = 0
    /\ written = <<>>
    /\ log = <<>>
    /\ sent = <<>>
    /\ inbox = <<>>
    /\ outbox = <<>>
    /\ errors = {}
    /\ wcounters = <<>>
    /\ wstate = <<>>
    /\ handled = <<>>
    /\ wtrace = <<>>
    /\ pstore = <<>>
    /\ pshare = <<>>
    /\ sstore = makeCounters
    /\ sfiles = 0
    /\ pagg = makeCounters
    /\ porder = <<>>
    /\ scounters = makeCounters
    /\ sbefore = makeCounters
    /\ shistory = <<>>
    /\ dimOrder = <<>>
    /\ sorted = <<>>

\* the key a call has added to Counter old, making it new (the calls of this
\* specification add at most one key to dimensions)
NewKeys(old, new) ==
    LET ks == KeySet(new) \ KeySet(old)
    IN  IF ks = {} THEN <<>> ELSE <<CHOOSE k \in ks : TRUE>>

\* what a call leaves behind: the Counters before it, the call itself, and
\* the keys of dimensions in the order they were added
called(op, node, file, after) ==
    /\ scounters' = after
    /\ sbefore' = scounters
    /\ shistory' = Append(shistory, [op |-> op, node |-> node, file |-> file])
    /\ dimOrder' = dimOrder \o NewKeys(scounters.dimensions, after.dimensions)

\* scanner.scanNode(n)
ScanVisit(j) ==
    /\ Len(shistory) < MaxCalls
    /\ called("scanNode", SampleNodes[j], "", scanNode(scounters, SampleNodes[j]))
    /\ UNCHANGED sorted
    /\ UNCHANGED <<mainVars, workerVars, partVars>>

\* scanner.scan(f)
ScanFile(f) ==
    /\ Len(shistory) < MaxCalls
    /\ called("scan", undefinedNode, f, scan(scounters, String(f)).counters)
    /\ UNCHANGED sorted
    /\ UNCHANGED <<mainVars, workerVars, partVars>>

\* scanner.scanRules(block)
ScanBlock(j) ==
    /\ Len(shistory) < MaxCalls
    /\ called("scanRules", SampleBlocks[j], "", scanRules(scounters, SampleBlocks[j]))
    /\ UNCHANGED sorted
    /\ UNCHANGED <<mainVars, workerVars, partVars>>

\* sortKeys(counters.dimensions)
ScanSort ==
    /\ Len(shistory) < MaxCalls
    /\ called("sortKeys", undefinedNode, "", scounters)
    /\ sorted' \in sortKeys(scounters.dimensions)
    /\ UNCHANGED <<mainVars, workerVars, partVars>>

NextScan ==
    \/ \E j \in DOMAIN SampleNodes : ScanVisit(j)
    \/ \E f \in ReadableFiles : ScanFile(f)
    \/ \E j \in DOMAIN SampleBlocks : ScanBlock(j)
    \/ ScanSort

SpecScan == InitScan /\ [][NextScan]_vars

----------------------------------------------------------------------------
(* Comparing Counters key for key and count for count.                     *)

AsMap(c) == [k \in KeySet(c) |-> c[OwnPos(c, k)].val]
SameCounter(c, d) == AsMap(c) = AsMap(d)
SameCounts(a, b) == \A section \in DOMAIN a : SameCounter(a[section], b[section])

----------------------------------------------------------------------------
(* What the claims speak of.                                               *)

\* the payloads of the scan messages main() has posted to worker w, in order
RECURSIVE tasksFrom(_, _)
tasksFrom(w, j) ==
    IF j > Len(sent) THEN <<>>
    ELSE (IF sent[j].worker = w THEN <<sent[j].path>> ELSE <<>>)
         \o tasksFrom(w, j + 1)
tasksOf(w) == tasksFrom(w, 1)

\* the payloads of the scan messages worker w has yet to handle
RECURSIVE pendingFrom(_, _)
pendingFrom(w, j) ==
    IF j > Len(inbox[w]) THEN <<>>
    ELSE (IF inbox[w][j].kind = "scan" THEN <<inbox[w][j].path>> ELSE <<>>)
         \o pendingFrom(w, j + 1)
pendingOf(w) == pendingFrom(w, 1)

Readable(path) == path.t = "string" /\ existsSync(path.s) /\ isFile(path.s)
Parses(path) == Readable(path) /\ FileSystem[path.s].parse = "tree"
FailsToParse(path) == Readable(path) /\ FileSystem[path.s].parse # "tree"

\* the Counters a fresh Scanner holds after traversing the trees of those of
\* the paths that parse, in order
RECURSIVE countsOf(_, _, _)
countsOf(cs, paths, j) ==
    IF Computed(cs) /\ j <= Len(paths)
    THEN countsOf(IF Parses(paths[j])
                  THEN scanRules(cs, FileSystem[paths[j].s].tree.block)
                  ELSE cs,
                  paths, j + 1)
    ELSE cs

\* the aggregate of merging, in worker order, what each worker's files count
RECURSIVE mergedCounts(_, _)
mergedCounts(cs, w) ==
    IF Computed(cs) /\ w <= count
    THEN mergedCounts(merge(cs, countsOf(makeCounters, handled[w], 1)), w + 1)
    ELSE cs

\* the aggregate of merging, in worker order, the snapshots main() received
RECURSIVE mergedSnapshots(_, _)
mergedSnapshots(cs, w) ==
    IF Computed(cs) /\ w <= count
    THEN mergedSnapshots(merge(cs, promises[w].value), w + 1)
    ELSE cs

\* worker w has replied to the report request, and the snapshot it sent
Replied(w) ==
    \/ promises[w].state = "resolved"
    \/ \E j \in DOMAIN outbox[w] : outbox[w][j].kind = "report"
Snapshot(w) ==
    IF promises[w].state = "resolved" THEN promises[w].value
    ELSE outbox[w][CHOOSE j \in DOMAIN outbox[w] : outbox[w][j].kind = "report"].counters

ToldToExit(w) ==
    \/ wstate[w] = "exited"
    \/ \E j \in DOMAIN inbox[w] : inbox[w][j].kind = "exit"

----------------------------------------------------------------------------
(* The claims.                                                             *)

\* C1: once every scanner's Counters have been merged, in whatever order, the
\* aggregate has in every section the keys and counts of the Counters of one
\* Scanner that scanned all the files.
C1_MergedSharesEqualSequentialScan ==
    Len(porder) = MaxScanners => SameCounts(pagg, sstore)

\* C2: for the Counters A, B, C of three scanners, merging A then B into empty
\* Counters gives the same as merging B then A; (A merged with B) merged with C
\* is the same as A merged with (B merged with C); and merging empty Counters
\* into A changes nothing.
C2_MergeCommutativeAssociative ==
    LET A == pstore[1]
        B == pstore[2]
        C == pstore[3]
    IN  /\ SameCounts(merge(merge(makeCounters, A), B),
                      merge(merge(makeCounters, B), A))
        /\ SameCounts(merge(merge(A, B), C), merge(A, merge(B, C)))
        /\ merge(A, makeCounters) = A

\* C3: a worker that has replied to the report request has handled every scan
\* message main() posted to it, in order, and has none pending; the snapshot
\* it sent holds the counts of those of its files that parse, and the worker's
\* Counters are still that snapshot.
C3_ReportAfterAllScans ==
    \A w \in Workers :
        Replied(w) =>
            /\ handled[w] = tasksOf(w)
            /\ pendingOf(w) = <<>>
            /\ Snapshot(w) = countsOf(makeCounters, tasksOf(w), 1)
            /\ wcounters[w] = Snapshot(w)

C3_Witness ==
    /\ count = 2
    /\ \E w \in Workers :
          /\ promises[w].state = "resolved"
          /\ Len(handled[w]) >= 2
          /\ promises[w].value # makeCounters
    /\ \E w \in Workers : ~Replied(w)

\* C4: a file that fails to parse adds nothing to its worker's Counters and
\* does not end the worker (a worker ends, and the run aborts, only on a task
\* it cannot read); a run that completes has the aggregate of the files that
\* parsed.
C4_ParseFailureSkipped ==
    /\ \A w \in Workers :
          /\ wcounters[w] = countsOf(makeCounters, handled[w], 1)
          /\ wstate[w] = "crashed" =>
                \E j \in DOMAIN handled[w] : ~Readable(handled[w][j])
    /\ pc = "aborted" =>
          \E w \in Workers : \E j \in DOMAIN handled[w] : ~Readable(handled[w][j])
    /\ pc \in {"write", "exit", "done"} =>
          counters = mergedCounts(makeCounters, 1)

C4_Witness ==
    /\ pc = "done"
    /\ counters # makeCounters
    /\ \E w \in Workers :
          /\ wstate[w] = "exited"
          /\ \E j \in DOMAIN handled[w] :
                /\ FailsToParse(handled[w][j])
                /\ j < Len(handled[w])
                /\ Parses(handled[w][j + 1])

\* C5: once the run is complete, every file that failed to parse is named by
\* a line of the log.
C5_ParseFailureDiagnosed ==
    pc = "done" =>
        \A w \in Workers : \A j \in DOMAIN handled[w] :
            FailsToParse(handled[w][j]) =>
                \E k \in DOMAIN log : log[k].text = handled[w][j].s

\* C6: a scan task that names a path the worker cannot read does not end the
\* worker: no worker's last task is such a path with the worker crashed.
C6_UnreadableFileSkipped ==
    \A w \in Workers :
        ~ /\ wstate[w] = "crashed"
          /\ handled[w] # <<>>
          /\ handled[w][Len(handled[w])].t = "string"

\* C7: the path payload of every scan message is the path of the file it was
\* dispatched for: the argument itself, or the directory entry's joined path.
C7_ScanPayloadIsPath ==
    \A j \in DOMAIN sent : sent[j].path = String(sent[j].file)

\* C8: the k-th scan message posted (k from 0) went to worker k mod count
\* (workers numbered from 1 here), idx counts exactly the messages posted, and
\* so the numbers of tasks of any two workers differ by at most one.
C8_RoundRobin ==
    /\ idx = Len(sent)
    /\ \A w \in Workers :
          handled[w] \o pendingOf(w) = tasksOf(w)
    /\ \A k \in DOMAIN sent : sent[k].worker = ((k - 1) % count) + 1
    /\ \A v, w \in Workers :
          Len(tasksOf(v)) - Len(tasksOf(w)) \in {-1, 0, 1}

C8_Witness ==
    /\ count = 2
    /\ Len(sent) >= 3
    /\ \E k \in DOMAIN log : log[k].level = "warning"

\* C9: once a worker has raised an error, no report file is ever written and
\* the aggregate stays empty.
C9_WorkerErrorAbortsRun ==
    (\E w \in Workers : wstate[w] = "crashed") =>
        /\ written = <<>>
        /\ counters = makeCounters
        /\ pc \notin {"merge", "write", "exit", "done"}

C9_Witness ==
    /\ pc = "aborted"
    /\ written = <<>>
    /\ \E w \in Workers :
          promises[w].state = "resolved" /\ promises[w].value # makeCounters

\* C10: a worker is told to exit only when every worker's snapshot has been
\* received and merged into the aggregate (and every report file written).
C10_ExitAfterAllMerged ==
    \A w \in Workers :
        ToldToExit(w) =>
            /\ \A v \in Workers : promises[v].state = "resolved"
            /\ Len(results) = count
            /\ \A v \in Workers : results[v] = promises[v].value
            /\ counters = mergedSnapshots(makeCounters, 1)
            /\ Len(written) = Len(SectionNames)

C10_Witness ==
    /\ count = 2
    /\ pc = "exit"
    /\ \E w \in Workers : wstate[w] = "exited"
    /\ \A w \in Workers : promises[w].value # makeCounters

\* scan messages only, then at most one report, then at most one exit, which
\* is the last message handled
LifeCycle(tr) ==
    \A j \in DOMAIN tr :
        /\ tr[j] \in {"scan", "report"} => \A k \in 1..(j - 1) : tr[k] = "scan"
        /\ tr[j] = "exit" => j = Len(tr) /\ j > 1 /\ tr[j - 1] = "report"

\* the replies to report that worker w has posted: those main() has yet to
\* handle and the one that resolved the promise
Replies(w) ==
    Cardinality({j \in DOMAIN outbox[w] : outbox[w][j].kind = "report"})
    + (IF promises[w].state = "resolved" THEN 1 ELSE 0)

\* C11: the messages a worker has handled are scan messages, then at most one
\* report, then at most one exit; it has posted one reply per report handled,
\* hence at most one; it has exited exactly when the last message it handled
\* is exit, and a worker that ended on an error ended in a scan, before any
\* report.
C11_WorkerLifeCycle ==
    \A w \in Workers :
        /\ LifeCycle(wtrace[w])
        /\ Replies(w) = Cardinality({j \in DOMAIN wtrace[w] : wtrace[w][j] = "report"})
        /\ Replies(w) <= 1
        /\ wstate[w] = "exited" <=>
              (wtrace[w] # <<>> /\ wtrace[w][Len(wtrace[w])] = "exit")
        /\ wstate[w] = "crashed" =>
              (wtrace[w] # <<>> /\ wtrace[w][Len(wtrace[w])] = "scan")
        /\ Len(handled[w]) = Cardinality({j \in DOMAIN wtrace[w] : wtrace[w][j] = "scan"})

C11_Witness ==
    /\ count = 2
    /\ \E w \in Workers : wtrace[w] = <<"scan", "scan", "report", "exit">>
    /\ \E w \in Workers : wstate[w] = "running" /\ Replies(w) = 1

\* C12: in a run in which no worker ever fails, main() eventually gets past
\* its await of the reports, eventually has written every section of the
\* aggregate, and eventually every worker has handled exit and terminated.
C12_RunCompletes ==
    \/ <>(\E w \in Workers : wstate[w] = "crashed")
    \/ /\ <>(pc = "merge")
       /\ <>(Len(written) = Len(SectionNames))
       /\ <>[](pc = "done" /\ \A w \in Workers : wstate[w] = "exited")

C12_Witness ==
    /\ count = 2
    /\ pc = "done"
    /\ idx >= 3
    /\ Len(written) = Len(SectionNames)
    /\ \A w \in Workers : wstate[w] = "exited" /\ inbox[w] = <<>> /\ outbox[w] = <<>>

\* the last call made on the Scanner; none before the first
lastCall ==
    IF shistory = <<>> THEN [op |-> "none", node |-> undefinedNode, file |-> ""]
    ELSE shistory[Len(shistory)]

\* the count of key k in Counter c: 0 for a key c does not hold
Count(c, k) == IF HasOwn(c, k) THEN c[OwnPos(c, k)].val ELSE Number(0)

\* the position of key k in the sequence of keys order
PosIn(order, k) == CHOOSE j \in DOMAIN order : order[j] = k

\* C13: what sortKeys returns for the Scanner's dimensions holds every key
\* once, paired with its count, by count descending, and keys of equal
\* count in the order in which they were first added to the Counter.
C13_SortKeysOrder ==
    LET c == scounters.dimensions
    IN  (lastCall.op = "sortKeys" /\ KeySet(c) = {dimOrder[j] : j \in DOMAIN dimOrder}) =>
            /\ Len(sorted) = Len(c)
            /\ \A k \in KeySet(c) :
                  \E j \in DOMAIN sorted :
                      sorted[j].key = k /\ sorted[j].val = Count(c, k)
            /\ \A i, j \in DOMAIN sorted :
                  i < j =>
                      \/ sorted[i].val.n > sorted[j].val.n
                      \/ /\ sorted[i].val.n = sorted[j].val.n
                         /\ PosIn(dimOrder, sorted[i].key) < PosIn(dimOrder, sorted[j].key)

\* main() has posted the report request to worker w
AskedToReport(w) ==
    \/ \E j \in DOMAIN inbox[w] : inbox[w][j].kind = "report"
    \/ \E j \in DOMAIN wtrace[w] : wtrace[w][j] = "report"

\* C14: in a run that dispatches no scan task, main() still asks every worker
\* to report once the arguments are done with, every snapshot it receives is
\* empty, no worker fails, and the aggregate it writes has eleven sections
\* with no key in any of them.
C14_EmptyRun ==
    (idx = 0 /\ pc \notin {"args", "report"}) =>
        /\ \A w \in Workers : AskedToReport(w) /\ wstate[w] # "crashed"
        /\ \A w \in Workers :
              promises[w].state = "resolved" => promises[w].value = makeCounters
        /\ pc # "aborted"
        /\ counters = makeCounters
        /\ \A j \in DOMAIN written :
              written[j].file = SectionNames[j] \o ".json" /\ written[j].data = <<>>
        /\ pc \in {"exit", "done"} => Len(written) = Len(SectionNames)

C14_Witness ==
    /\ count = 2
    /\ args = <<"empty", "missing">>
    /\ idx = 0
    /\ pc = "done"
    /\ Len(log) = 2
    /\ \A w \in Workers : wstate[w] = "exited"

\* every call made on the Scanner so far has been a scan of a file
OnlyScans == \A j \in DOMAIN shistory : shistory[j].op = "scan"

\* the Counters of a fresh Scanner that has scanned file f alone
aloneOf(f) == scan(makeCounters, String(f)).counters

\* the keys that the Scanner, or a Scanner that scanned one of its files
\* alone, holds in a section
KeysOf(section) ==
    KeySet(scounters[section])
    \cup UNION {KeySet(aloneOf(shistory[j].file)[section]) : j \in DOMAIN shistory}

\* the sum over the files scanned, from the j-th on, of the count each file
\* scanned alone gives key k of a section
RECURSIVE SumAlone(_, _, _)
SumAlone(section, k, j) ==
    IF j > Len(shistory) THEN 0
    ELSE Count(aloneOf(shistory[j].file)[section], k).n + SumAlone(section, k, j + 1)

\* C15: after a Scanner has scanned files f1..fn and nothing else, every key
\* of every section has the sum of the counts that scanning each file alone
\* gives it: the count of the one file that has the key, if only one has
\* it; else the sum of numbers, twice its count for a file scanned twice.
C15_ScanAdditive ==
    OnlyScans =>
        \A section \in DOMAIN scounters : \A k \in KeysOf(section) :
            \/ \E j \in DOMAIN shistory :
                  /\ \A i \in DOMAIN shistory \ {j} :
                        ~HasOwn(aloneOf(shistory[i].file)[section], k)
                  /\ Count(scounters[section], k)
                        = Count(aloneOf(shistory[j].file)[section], k)
            \/ /\ \A j \in DOMAIN shistory :
                     Count(aloneOf(shistory[j].file)[section], k).t = "number"
               /\ Count(scounters[section], k) = Number(SumAlone(section, k, 1))

\* the (section, key) pairs whose count the last call changed
Changed ==
    UNION {{<<section, k>> :
               k \in {x \in KeySet(sbefore[section]) \cup KeySet(scounters[section]) :
                         Count(sbefore[section], x) # Count(scounters[section], x)}} :
           section \in DOMAIN scounters}

\* the last call added exactly n to the count of key k of a section
Added(section, k, n) ==
    /\ Count(sbefore[section], k).t = "number"
    /\ Count(scounters[section], k) = Number(Count(sbefore[section], k).n + n)

\* the last call was scanNode on a node of this type
Visited(type) == lastCall.op = "scanNode" /\ lastCall.node.type = type

\* C16: scanNode on a dimension node adds one to dimensions[value and unit]
\* and one to syntax["dimension"] if the node has a unit, to syntax["number"]
\* if it has none, and changes no other count.
C16_DimensionVisit ==
    Visited("DIMENSION") =>
        LET d == lastCall.node
            unit == IF d.unit.t = "string" THEN d.unit.s ELSE ""
            tag == IF unit # "" THEN "dimension" ELSE "number"
        IN  /\ Changed = {<<"dimensions", ToString(d.value) \o unit>>, <<"syntax", tag>>}
            /\ Added("dimensions", ToString(d.value) \o unit, 1)
            /\ Added("syntax", tag, 1)

C16_Witness ==
    /\ Visited("DIMENSION")
    /\ lastCall.node.unit = String("px")
    /\ Count(scounters.dimensions, "10px") = Number(2)
    /\ Count(scounters.dimensions, "10") = Number(1)
    /\ Count(scounters.syntax, "dimension") = Number(2)
    /\ Count(scounters.syntax, "number") = Number(1)

\* C17: scanNode on a color node adds, for a named color, one to
\* keywords[spelling] and one to syntax["keyword_color"]; for an RGB color,
\* one to colors[rendered text] and one to syntax["rgb_color"]; and changes
\* no other count.
C17_ColorVisit ==
    Visited("COLOR") =>
        LET n == lastCall.node
        IN  IF n.class = "KeywordColor"
            THEN /\ Changed = {<<"keywords", n.keyword>>, <<"syntax", "keyword_color">>}
                 /\ Added("keywords", n.keyword, 1)
                 /\ Added("syntax", "keyword_color", 1)
            ELSE /\ n.class = "RGBColor"
                 /\ Changed = {<<"colors", n.repr>>, <<"syntax", "rgb_color">>}
                 /\ Added("colors", n.repr, 1)
                 /\ Added("syntax", "rgb_color", 1)

C17_Witness ==
    /\ Visited("COLOR")
    /\ lastCall.node.class = "RGBColor"
    /\ Count(scounters.colors, "#fff") = Number(1)
    /\ Count(scounters.keywords, "red") = Number(2)
    /\ Count(scounters.syntax, "keyword_color") = Number(2)
    /\ Count(scounters.syntax, "rgb_color") = Number(1)

\* C18: scanNode on a named color adds one to color_keywords[spelling], and
\* after the scan of a file that holds a named color the color_keywords
\* section is not empty.
C18_ColorKeywordsCounted ==
    /\ (Visited("COLOR") /\ lastCall.node.class = "KeywordColor") =>
            Added("color_keywords", lastCall.node.keyword, 1)
    /\ (lastCall.op = "scan" /\ FileSystem[lastCall.file].tree = StyleA) =>
            scounters.color_keywords # <<>>

\* the nodes of the tree under n, n included, that are operations or
\* conditions whose operator has the syntax key given
RECURSIVE operators(_, _)
operators(n, key) ==
    IF n.type = "GUARD"
    THEN IF n.conditions = <<>> THEN 0
         ELSE operators(Head(n.conditions), key)
              + operators([n EXCEPT !.conditions = Tail(@)], key)
    ELSE IF n.type \in {"OPERATION", "CONDITION"}
    THEN (IF operationKey(n.operator) = key THEN 1 ELSE 0)
         + operators(n.left, key) + operators(n.right, key)
    ELSE 0

OperatorKeys ==
    {"operation_add", "operation_subtract", "operation_multiply",
     "operation_divide", "operation_and", "operation_or", "operation_eq",
     "operation_ne", "operation_gt", "operation_gte", "operation_lt",
     "operation_lte"}

\* C19: scanNode on an operation, a condition or a guard adds to each operator
\* key of syntax the number of operations and conditions of the tree that
\* carry that operator; and on the guard (@a + @b > 10) it adds one
\* operation_add, one operation_gt, two to syntax["variable"], and one each
\* to variables["a"] and variables["b"], a before b.
C19_OperatorsTagged ==
    /\ (Visited("OPERATION") \/ Visited("CONDITION") \/ Visited("GUARD")) =>
            \A key \in OperatorKeys :
                Added("syntax", key, operators(lastCall.node, key))
    /\ (lastCall.op = "scanNode" /\ lastCall.node = GuardAB) =>
            /\ Added("syntax", "operation_add", 1)
            /\ Added("syntax", "operation_gt", 1)
            /\ Added("syntax", "variable", 2)
            /\ Added("variables", "a", 1)
            /\ Added("variables", "b", 1)
            /\ sbefore.variables = <<>> => ObjectKeys(scounters.variables) = <<"a", "b">>

\* C20: a step changes the Counters of worker w only if it is w handling a
\* scan message, before w has replied to report, and it then leaves every
\* other Counters alone; a step changes the aggregate only if it is main() in
\* its merge loop, with the report of every worker received, and it then
\* leaves the workers' Counters and the snapshots alone; and a snapshot main()
\* holds never changes.
C20_ExclusiveOwnership ==
    [][ /\ \A w \in Workers :
              wcounters'[w] # wcounters[w] =>
                  /\ wstate[w] = "running"
                  /\ inbox[w] # <<>>
                  /\ Head(inbox[w]).kind = "scan"
                  /\ inbox'[w] = Tail(inbox[w])
                  /\ ~Replied(w)
                  /\ \A v \in Workers \ {w} : wcounters'[v] = wcounters[v]
                  /\ counters' = counters
        /\ counters' # counters =>
              /\ pc = "merge"
              /\ \A w \in Workers : promises[w].state = "resolved"
              /\ wcounters' = wcounters
              /\ promises' = promises
              /\ results' = results
        /\ \A w \in Workers :
              promises[w].state = "resolved" => promises'[w] = promises[w]
        /\ results # <<>> => results' = results
      ]_vars

C20_Witness ==
    /\ count = 2
    /\ pc = "merge"
    /\ li = 1
    /\ counters # makeCounters
    /\ \A w \in Workers :
          /\ wstate[w] = "running"
          /\ wcounters[w] # makeCounters
          /\ results[w] = wcounters[w]

\* the files main() posts for an argument that exists: the argument itself,
\* or every entry of the directory it names, in readdir order
filesOfArg(arg) ==
    IF isFile(arg) THEN <<arg>>
    ELSE IF isDirectory(arg)
    THEN [j \in DOMAIN readdirSync(arg) |-> join(arg, readdirSync(arg)[j])]
    ELSE <<>>

\* the files main() posts for the arguments paths, from the j-th on
RECURSIVE filesOfArgs(_, _)
filesOfArgs(paths, j) ==
    IF j > Len(paths) THEN <<>>
    ELSE filesOfArg(paths[j]) \o filesOfArgs(paths, j + 1)

\* the arguments that name something, the others left out
existingArgs == SelectSeq(args, existsSync)

\* the arguments main() is done with
argsDone == IF pc = "args" THEN SubSeq(args, 1, argi - 1) ELSE args

IsMissing(arg) == ~existsSync(arg)
IsWarning(line) == line.level = "warning"
IsPrefix(s, t) == Len(s) <= Len(t) /\ s = SubSeq(t, 1, Len(s))

\* directories whose entries are all files a worker can read
ReadableDirs ==
    {p \in DOMAIN FileSystem :
        /\ isDirectory(p)
        /\ \A j \in DOMAIN readdirSync(p) :
              existsSync(join(p, readdirSync(p)[j])) /\ isFile(join(p, readdirSync(p)[j]))}

\* C21: an argument that names no path leaves one warning in the log and
\* nothing else: the scan tasks posted are those of the arguments that exist,
\* as if the missing ones had not been given, dealt round-robin with the task
\* index counting only them; the run does not abort unless a worker fails,
\* which none does when the arguments that exist are directories of readable
\* files; and a run that gets past its await writes every section.
C21_MissingPathSkipped ==
    LET posted == [j \in DOMAIN sent |-> sent[j].file]
        warned == SelectSeq(log, IsWarning)
    IN  /\ [j \in DOMAIN warned |-> warned[j].text] = SelectSeq(argsDone, IsMissing)
        /\ idx = Len(sent)
        /\ \A j \in DOMAIN sent : sent[j].worker = ((j - 1) % count) + 1
        /\ IsPrefix(posted, filesOfArgs(existingArgs, 1))
        /\ pc # "args" => posted = filesOfArgs(existingArgs, 1)
        /\ pc = "aborted" => \E w \in Workers : wstate[w] = "crashed"
        /\ (\A j \in DOMAIN existingArgs : existingArgs[j] \in ReadableDirs) =>
              /\ pc # "aborted"
              /\ \A w \in Workers : wstate[w] # "crashed"
        /\ pc \in {"exit", "done"} => Len(written) = Len(SectionNames)

C21_Witness ==
    /\ count = 2
    /\ args = <<"missing", "lib">>
    /\ pc = "done"
    /\ Len(sent) = 2
    /\ sent[1].worker = 1 /\ sent[2].worker = 2
    /\ Len(written) = Len(SectionNames)
    /\ counters # makeCounters

\* the discriminants scanNode has a case for
NodeTypes ==
    {"ARGUMENT", "ASSIGNMENT", "COLOR", "CONDITION", "DEFINITION", "DIMENSION",
     "DIRECTIVE", "ELEMENT", "EXPRESSION", "EXPRESSION_LIST", "FALSE", "FEATURE",
     "FEATURES", "FUNCTION_CALL", "GUARD", "IMPORT", "KEYWORD", "MIXIN_ARGS",
     "MIXIN_CALL", "MIXIN_PARAMS", "OPERATION", "PARAMETER", "PAREN", "PROPERTY",
     "QUOTED", "RATIO", "RULE", "SELECTOR", "SELECTORS", "SHORTHAND", "TRUE",
     "UNICODE_RANGE", "URL", "VARIABLE"}

\* the children scanNode goes on to visit, for the nodes it is called on here
children(n) ==
    CASE n.type = "GUARD" -> n.conditions
      [] n.type \in {"OPERATION", "CONDITION"} -> <<n.left, n.right>>
      [] n.type = "ELEMENT" /\ n.class = "ValueElement" -> <<n.value>>
      [] OTHER -> <<>>

\* the number of visits scanNode(n) makes of nodes it has a case for: n and
\* the nodes under it
RECURSIVE visits(_)
RECURSIVE visitsOf(_, _)
visits(n) ==
    IF n.type \in NodeTypes THEN 1 + visitsOf(children(n), 1) ELSE 0
visitsOf(list, j) ==
    IF j > Len(list) THEN 0 ELSE visits(list[j]) + visitsOf(list, j + 1)

\* the sum of the counts of Counter c from its j-th key on
RECURSIVE Total(_, _)
Total(c, j) == IF j > Len(c) THEN 0 ELSE c[j].val.n + Total(c, j + 1)

\* the syntax key of an element node's shape
shapeKey(n) ==
    CASE n.class = "AttributeElement" -> "attribute_element"
      [] n.class = "ValueElement" -> "value_element"
      [] n.class = "TextElement" -> "text_element"

\* C22: a call of scanNode raises the syntax counts by one for each node it
\* visits, the node it is called on and the nodes under it; and on an
\* element node it adds one to the key of the node's shape and nothing to
\* syntax["expression"].
C22_OneSyntaxKeyPerVisit ==
    lastCall.op = "scanNode" =>
        /\ Total(scounters.syntax, 1) - Total(sbefore.syntax, 1) = visits(lastCall.node)
        /\ Visited("ELEMENT") =>
              /\ Added("syntax", shapeKey(lastCall.node), 1)
              /\ Added("syntax", "expression", 0)

\* the discriminants scanRules has a case for
RuleTypes ==
    {"MIXIN_CALL", "RULE", "BLOCK_DIRECTIVE", "GENERIC_BLOCK", "MEDIA", "MIXIN",
     "RULESET"}

\* an entry of a block's rules that scanRules has a case for
IsRuleEntry(n) == IsPresent(n) /\ n.type \in RuleTypes

\* the last call was scanRules, on this block
lastBlock == lastCall.node

\* C23: a call of scanRules leaves the Counters that the same call would on
\* the block without its absent entries and without the entries of a type it
\* has no case for, the entries after them included; on a block that has no
\* other entries it changes nothing; and scanNode on an absent node, or on a
\* node of a type it has no case for, changes nothing.
C23_UnrecognisedSkipped ==
    /\ lastCall.op = "scanRules" =>
          LET known == SelectSeq(lastBlock.rules, IsRuleEntry)
          IN  /\ scounters = scanRules(sbefore, Block(known))
              /\ known = <<>> => scounters = sbefore
    /\ (lastCall.op = "scanNode" /\ lastCall.node.type \notin NodeTypes) =>
          scounters = sbefore

C23_Witness ==
    /\ Len(shistory) = 3
    /\ shistory[1].op = "scanRules" /\ shistory[1].node = SampleBlocks[2]
    /\ shistory[2].op = "scanNode" /\ shistory[2].node = undefinedNode
    /\ shistory[3].op = "scanRules" /\ shistory[3].node = SampleBlocks[1]
    /\ Count(scounters.syntax, "rule") = Number(2)
    /\ Count(scounters.syntax, "mixin_call") = Number(2)
    /\ Count(scounters.keywords, "red") = Number(1)
    /\ scounters = sbefore

\* the number of entries of this type that scanRules meets at block level in
\* a block: in its rules from the j-th on and in the blocks nested in them
RECURSIVE entriesOf(_, _, _)
entriesOf(rules, type, j) ==
    IF j > Len(rules) THEN 0
    ELSE LET n == rules[j]
         IN  (IF IsPresent(n) /\ n.type = type THEN 1 ELSE 0)
             + (IF IsRuleEntry(n) /\ HasField(n, "block")
                THEN entriesOf(n.block.rules, type, 1) ELSE 0)
             + entriesOf(rules, type, j + 1)

\* the block the last call traversed: the one scanRules was called on, or
\* the one of the tree scan got from the parser
traversed ==
    IF lastCall.op = "scanRules" THEN lastBlock
    ELSE FileSystem[lastCall.file].tree.block

\* C24: a traversal of a block adds to syntax["rule"] two for each
\* declaration at block level, in the block and in the blocks nested in it,
\* and to syntax["mixin_call"] two for each mixin call at block level.
C24_BlockLevelCountedTwice ==
    (\/ lastCall.op = "scanRules"
     \/ lastCall.op = "scan" /\ Parses(String(lastCall.file))) =>
        /\ Added("syntax", "rule", 2 * entriesOf(traversed.rules, "RULE", 1))
        /\ Added("syntax", "mixin_call", 2 * entriesOf(traversed.rules, "MIXIN_CALL", 1))

C24_Witness ==
    /\ Len(shistory) = 2
    /\ shistory[1].op = "scan" /\ shistory[1].file = "a.less"
    /\ shistory[2].op = "scanRules" /\ shistory[2].node = SampleBlocks[3]
    /\ Count(sbefore.syntax, "rule") = Number(4)
    /\ Count(scounters.syntax, "rule") = Number(8)
    /\ Count(scounters.syntax, "mixin_call") = Number(2)

\* every key Counters a holds, Counters b holds too, with a count that is
\* not smaller (counts that are not both numbers are left to Counted)
Grown(a, b) ==
    \A section \in DOMAIN a :
        \A k \in KeySet(a[section]) :
            /\ HasOwn(b[section], k)
            /\ LET x == Count(a[section], k)
                   y == Count(b[section], k)
               IN  (x.t = "number" /\ y.t = "number") => x.n <= y.n

\* every key Counters a holds has an integer count, one at least
Counted(a) ==
    \A section \in DOMAIN a :
        \A j \in DOMAIN a[section] :
            a[section][j].val.t = "number" /\ a[section][j].val.n >= 1

\* C25: no step of a run removes a key from a worker's Counters or from the
\* aggregate, or lowers a count in them, and after every step every key they
\* hold has an integer count, one at least.
C25_CountersMonotonic ==
    [][/\ \A w \in Workers :
             Grown(wcounters[w], wcounters'[w]) /\ Counted(wcounters'[w])
       /\ Grown(counters, counters') /\ Counted(counters')]_vars

\* the scan notices of worker w that main() has yet to handle
noticesOf(w) == Cardinality({j \in DOMAIN outbox[w] : outbox[w][j].kind = "scan"})

\* the sum of f[w] over the workers from w on
RECURSIVE SumFrom(_, _)
SumFrom(f, w) == IF w > count THEN 0 ELSE f[w] + SumFrom(f, w + 1)

\* C26: the tasks a worker has handled are the first of the tasks main()
\* posted to it, each once and in the order posted; a worker that has stopped
\* has handled every one of them; the scan notices posted, those main() has
\* counted and those still on their way, are as many as the tasks handled;
\* and once main() is past its await it has counted as many scans as it
\* posted tasks.
C26_EachTaskOnce ==
    /\ \A w \in Workers :
          /\ IsPrefix(handled[w], tasksOf(w))
          /\ wstate[w] # "running" => handled[w] = tasksOf(w)
    /\ total + SumFrom([w \in Workers |-> noticesOf(w)], 1)
          = SumFrom([w \in Workers |-> Len(handled[w])], 1)
    /\ pc \in {"merge", "write", "exit", "done"} => total = Len(sent)

\* syntax[k] of Counters a, 0 for a key it does not hold
Syntax(a, k) == Count(a.syntax, k).n

\* the counts of Counter c are numbers and add up to n
SumIs(c, n) ==
    /\ \A j \in DOMAIN c : c[j].val.t = "number"
    /\ Total(c, 1) = n

\* what each value section of Counters a should add up to: the syntax counts
\* of the cases of scanRules and scanNode that increment the section
Conserved(a) ==
    /\ SumIs(a.variables, Syntax(a, "variable"))
    /\ SumIs(a.functions, Syntax(a, "function_call"))
    /\ SumIs(a.directives, Syntax(a, "block_directive"))
    /\ SumIs(a.colors, Syntax(a, "rgb_color"))
    /\ SumIs(a.elements, Syntax(a, "text_element"))
    /\ SumIs(a.ratio, Syntax(a, "ratio"))
    /\ SumIs(a.dimensions, Syntax(a, "dimension") + Syntax(a, "number"))
    /\ SumIs(a.keywords, Syntax(a, "keyword") + Syntax(a, "keyword_color"))
    /\ SumIs(a.properties, Syntax(a, "property") + Syntax(a, "feature"))

\* C27: in every worker's Counters and in the aggregate, at every point of a
\* run, the counts of each value section add up to the syntax counts of the
\* node kinds that feed it.
C27_SectionsMatchSyntax ==
    /\ \A w \in Workers : Conserved(wcounters[w])
    /\ Conserved(counters)

=============================================================================
